---- MODULE Spec2Model ----
(***************************************************************************)
(* A recursive DNS resolver (src/src/main.rs): the listener loop, the      *)
(* query handler, the resolution engine (recurse / run_lookup /            *)
(* get_next_server), the upstream transport (lookup) and the response      *)
(* cache.  The program is single threaded; pc is the place the thread is   *)
(* at, stack is the chain of active recurse calls (the last one is the     *)
(* innermost).                                                             *)
(***************************************************************************)
EXTENDS Naturals, Sequences, FiniteSets, TLC

VARIABLES
  pc,        \* where the thread is: recv, recurse, lookup, await, classify, loop, return
  buf,       \* packet_buf of main, reused by every handle_query call
  src,       \* source address of the datagram being handled
  request,   \* the message handle_query parsed from its copy of the buffer
  stack,     \* active recurse calls, outermost first
  ret,       \* result of the recurse call that returned last
  cache,     \* DnsServer::cache, a set of [key, msg] entries
  query,     \* the upstream query the outbound socket waits a reply for
  reply,     \* the datagram sent to the client for the request being handled
  dgram,     \* history: the datagram received last
  nreplies,  \* history: datagrams sent to the client since the last receive
  nsent,     \* history: upstream queries sent since the last receive (saturating)
  hitAtEntry,\* history: the top-level recurse found its key in the cache
  asked,     \* history: questions of the client requests handled so far
  returned,  \* history: first message each top-level question resolved to
  cache0,    \* history: the cache when the last datagram was received
  failed,    \* history: an upstream query of this request failed
  topFailed, \* history: an upstream query for the client's own question failed
  asmFailed, \* history: handle_query returned Err while assembling the reply
  inbox,     \* datagrams queued on the outbound socket, oldest first
  outstanding, \* the upstream query no server has replied to yet
  consumed   \* history: the datagram lookup received last, and the query it waited for

vars == <<pc, buf, src, request, stack, ret, cache, query, reply, dgram, nreplies, nsent,
          hitAtEntry, asked, returned, cache0, failed, topFailed, asmFailed,
          inbox, outstanding, consumed>>

\* the outbound socket's queue and what is known of its traffic
net == <<inbox, outstanding, consumed>>

(***************************************************************************)
(* Bounds of the model.                                                    *)
(***************************************************************************)
\* nsent and the per-call hop counter saturate here in Spec
HopSat == 2
\* most datagrams the outbound socket queues in SpecDup
MaxInbox == 2
\* deepest chain of recurse calls the upstream replies of Spec lead to
MaxDepth == 2
\* hop count and nesting depth whose crossing SpecCycle is built to show
HOP_LIMIT == 16
DEPTH_LIMIT == 8
\* cells of packet_buf: a header and room for two questions
BufCells == 3

(***************************************************************************)
(* Program constants.                                                      *)
(***************************************************************************)
ROOT_NAMESERVER == 1
DNS_PORT == 53

Min(a, b) == IF a < b THEN a ELSE b

(***************************************************************************)
(* Domain names: sequences of labels, compared without regard to case.     *)
(***************************************************************************)
Lower(l) == CASE l = "W" -> "w" [] l = "T" -> "t" [] l = "NS" -> "ns" [] OTHER -> l

LowerName(n) == [i \in 1..Len(n) |-> Lower(n[i])]

\* Dname == Dname
NameEq(a, b) == LowerName(a) = LowerName(b)

\* qname.ends_with(owner)
EndsWith(name, suffix) ==
  /\ Len(suffix) <= Len(name)
  /\ LowerName(SubSeq(name, Len(name) - Len(suffix) + 1, Len(name))) = LowerName(suffix)

Root == <<>>
Zt == <<"t">>
Wt == <<"w", "t">>
WtUpper == <<"W", "T">>
NsT == <<"ns", "t">>
NsO == <<"ns", "o">>

Q(n, t, c) == [qname |-> n, qtype |-> t, qclass |-> c]

\* Question::new_in
NewIn(n, t) == Q(n, t, "IN")

\* what a run of zero bytes parses to: the root name, type 0, class 0
ZeroQ == Q(Root, "T0", "C0")
NoKey == Q(Root, "none", "none")

QuestionEqExact(a, b) == a = b

\* Question == Question, as the HashMap compares its keys
QuestionEq(a, b) ==
  /\ NameEq(a.qname, b.qname)
  /\ a.qtype = b.qtype
  /\ a.qclass = b.qclass

(***************************************************************************)
(* Records and messages.  ok = FALSE is a record whose data does not       *)
(* parse; wf = FALSE is a message whose sections cannot be walked.         *)
(***************************************************************************)
RR(o, t, c, d, good) == [owner |-> o, rtype |-> t, rclass |-> c, rdata |-> d, ok |-> good]

RecA(o, a) == RR(o, "A", "IN", [addr |-> a, name |-> Root], TRUE)
RecNs(o, n) == RR(o, "NS", "IN", [addr |-> 0, name |-> n], TRUE)

Msg(rc, an, au, ad) ==
  [rcode |-> rc, answer |-> an, authority |-> au, additional |-> ad, wf |-> TRUE]

NoMsg == [rcode |-> "none", answer |-> <<>>, authority |-> <<>>, additional |-> <<>>,
          wf |-> TRUE]

\* SocketAddrV4::new(addr, DNS_PORT)
Sock(a) == [ip |-> a, port |-> DNS_PORT]
NoAddr == [ip |-> 0, port |-> 0]

(***************************************************************************)
(* The response cache: HashMap<Question<Dname>, Message>.                  *)
(***************************************************************************)
CacheHits(c, key) == {e \in c : QuestionEq(e.key, key)}

CacheGetNever(c, key) == NoMsg

\* self.cache.get(&key); NoMsg stands for None
CacheGet(c, key) ==
  IF CacheHits(c, key) = {} THEN NoMsg ELSE (CHOOSE e \in CacheHits(c, key) : TRUE).msg

\* self.cache.insert(key, response.clone()): an equal key keeps its stored form
CacheInsert(c, key, m) ==
  LET old == CacheHits(c, key)
      k == IF old = {} THEN key ELSE (CHOOSE e \in old : TRUE).key
  IN (c \ old) \cup {[key |-> k, msg |-> m]}

(***************************************************************************)
(* get_next_server, the part before the sub-resolution (lines 64-118).     *)
(***************************************************************************)
IsRelevantNs(rec, question) ==
  rec.rtype = "NS" /\ rec.ok /\ EndsWith(question.qname, rec.owner)

\* relevant_hosts: nsdname of every authority NS record whose owner the qname ends with
RelevantHosts(response, question) ==
  LET recs == SelectSeq(response.authority, LAMBDA rec : IsRelevantNs(rec, question))
  IN [i \in 1..Len(recs) |-> recs[i].rdata.name]

\* the inner filter_map: addresses of the additional A records owned by host
GlueOf(host, additionals) ==
  LET recs == SelectSeq(additionals,
                        LAMBDA rec : rec.rtype = "A" /\ rec.ok /\ NameEq(rec.owner, host))
  IN [i \in 1..Len(recs) |-> recs[i].rdata.addr]

ResolvedNsAdditionalOrder(hosts, additionals) ==
  LET recs == SelectSeq(additionals,
                        LAMBDA rec : /\ rec.rtype = "A" /\ rec.ok
                                     /\ \E i \in 1..Len(hosts) : NameEq(rec.owner, hosts[i]))
  IN IF recs = <<>> THEN 0 ELSE recs[1].rdata.addr

RECURSIVE ResolvedNs(_, _)
\* resolved_ns: flat_map over the hosts in their order, .next(); 0 stands for None
ResolvedNs(hosts, additionals) ==
  IF hosts = <<>> THEN 0
  ELSE IF GlueOf(hosts[1], additionals) # <<>> THEN GlueOf(hosts[1], additionals)[1]
  ELSE ResolvedNs(Tail(hosts), additionals)

GlueResultNone(addr) == [kind |-> "ret", done |-> FALSE, name_server |-> NoAddr]

\* line 112
GlueResult(addr) == [kind |-> "ret", done |-> FALSE, name_server |-> Sock(addr)]

Terminal == [kind |-> "ret", done |-> TRUE, name_server |-> NoAddr]

\* what get_next_server does with a reply: fail, return a pair, or start a
\* sub-resolution for the first relevant host
Classify(response, question) ==
  IF ~response.wf THEN [kind |-> "err", done |-> TRUE, name_server |-> NoAddr]
  ELSE IF Len(response.answer) > 0 /\ response.rcode = "NoError" THEN Terminal
  ELSE IF response.rcode = "NXDomain" THEN Terminal
  ELSE LET hosts == RelevantHosts(response, question)
           glue == ResolvedNs(hosts, response.additional)
       IN IF glue # 0 THEN GlueResult(glue)
          ELSE IF hosts = <<>> THEN Terminal
          ELSE [kind |-> "sub", done |-> FALSE, name_server |-> NoAddr]

\* unresolved_ns
UnresolvedNs(response, question) == RelevantHosts(response, question)[1]

\* msg.answer()?.limit_to::<A>(): the A records of the answer section, the
\* unparseable ones included (the iterator yields them as Err)
AItems(m) == SelectSeq(m.answer, LAMBDA rec : rec.rtype = "A")

\* lines 126-131, for the item the rng chose
ChosenResult(item) == IF item.ok THEN GlueResult(item.rdata.addr) ELSE Terminal

(***************************************************************************)
(* Client datagrams and the receive buffer.  A datagram is a sequence of   *)
(* cells, a header and then questions; recv_from writes it over the start  *)
(* of packet_buf and leaves the rest of the buffer as it was.              *)
(***************************************************************************)
Hdr(i, n) == [id |-> i, qd |-> n]

Qw == NewIn(Wt, "A")
QwUpper == NewIn(WtUpper, "A")
Qns == NewIn(NsO, "A")

Packet(from, cells) == [src |-> from, data |-> cells]

Packets ==
  { Packet("c1", <<Hdr(1, 1), Qw>>),
    Packet("c2", <<Hdr(2, 1), QwUpper>>),
    Packet("c1", <<Hdr(3, 1), Qns>>),
    Packet("c2", <<Hdr(2, 2), Qw, Qns>>),
    Packet("c1", <<Hdr(1, 0)>>),
    Packet("c2", <<>>) }

\* let mut packet_buf = [0u8; 512]
ZeroBuf == [i \in 1..BufCells |-> IF i = 1 THEN Hdr(0, 0) ELSE ZeroQ]

\* socket.recv_from(buf)
RecvInto(b, data) == [i \in 1..BufCells |-> IF i <= Len(data) THEN data[i] ELSE b[i]]

ToVecReceived(b, n) == SubSeq(b, 1, n)

\* buf.to_vec(), after recv_from wrote n cells: the whole buffer
ToVec(b, n) == b

\* Message::from_octets is Ok: the octets hold a header
FromOctetsOk(octets) == Len(octets) >= 1

HasSoleQuestionFirst(req) == req[1].qd >= 1 /\ Len(req) >= 2

\* request.sole_question() is Ok
HasSoleQuestion(req) == req[1].qd = 1 /\ Len(req) >= 2

\* the question sole_question() returns
SoleQuestion(req) == req[2]

\* msg.question().flatten(): the questions the header counts, as far as the
\* message holds them
Questions(req) == SubSeq(req, 2, 1 + Min(req[1].qd, Len(req) - 1))

ValidRecordsAnyClass(section) == SelectSeq(section, LAMBDA rec : rec.ok)

\* limit_to_in::<AllRecordData>().filter_map(|r| r.ok())
ValidRecords(section) == SelectSeq(section, LAMBDA rec : rec.rclass = "IN" /\ rec.ok)

StartAnswerIdOf(req, result) == 0

ResultRcodeNoError(result) == "NoError"

\* result.header().rcode(), line 193
ResultRcode(result) == result.rcode

ServFailRcodeFormErr == "FormErr"

\* Rcode::ServFail, line 224
ServFailRcode == "ServFail"

\* the id start_answer(&request, _) gives the reply
StartAnswerId(req, result) == req[1].id

\* MessageBuilder::start_answer(&request, rcode) and the records pushed after it
BuildReply(to, req, rc, result) ==
  [dst |-> to, id |-> StartAnswerId(req, result), rcode |-> rc,
   questions |-> Questions(req),
   answer |-> ValidRecords(result.answer),
   authority |-> ValidRecords(result.authority),
   additional |-> ValidRecords(result.additional)]

NoReply == [dst |-> "none", id |-> 0, rcode |-> "none", questions |-> <<>>,
            answer |-> <<>>, authority |-> <<>>, additional |-> <<>>]

NoPacket == Packet("none", <<>>)
NoQuery == [question |-> NoKey, server |-> NoAddr]
NoRet == [ok |-> FALSE, msg |-> NoMsg]

\* canonical form of a question: the name in lower case
Canon(q) == Q(LowerName(q.qname), q.qtype, q.qclass)

(***************************************************************************)
(* One active call of recurse.                                             *)
(***************************************************************************)
Frame(q, cc) ==
  [question |-> q, check_cache |-> cc, key |-> NoKey, response |-> NoMsg,
   done |-> FALSE, name_server |-> NoAddr, hops |-> 0]

Top == stack[Len(stack)]
Depth == Len(stack)
Pop == SubSeq(stack, 1, Len(stack) - 1)
SetTop(f) == [stack EXCEPT ![Len(stack)] = f]

Init ==
  /\ pc = "recv"
  /\ buf = ZeroBuf
  /\ src = "none"
  /\ request = ZeroBuf
  /\ stack = <<>>
  /\ ret = NoRet
  /\ cache = {}
  /\ query = NoQuery
  /\ reply = NoReply
  /\ dgram = NoPacket
  /\ nreplies = 0
  /\ nsent = 0
  /\ hitAtEntry = FALSE
  /\ asked = {}
  /\ returned = {}
  /\ cache0 = {}
  /\ failed = FALSE
  /\ topFailed = FALSE
  /\ asmFailed = FALSE
  /\ inbox = <<>>
  /\ outstanding = NoQuery
  /\ consumed = [query |-> NoQuery, question |-> NoKey, server |-> NoAddr]

history == <<dgram, nreplies, nsent, hitAtEntry, asked, returned, cache0, failed, topFailed,
             asmFailed>>

(***************************************************************************)
(* handle_query, lines 184-189 and 227-233: receive a datagram, parse it,  *)
(* and either call recurse with check_cache = true or answer FormErr.      *)
(***************************************************************************)
ClientRecvOf(P) ==
  /\ pc = "recv"
  /\ \E p \in P :
       LET newbuf == RecvInto(buf, p.data)
           req == ToVec(newbuf, Len(p.data))
       IN
       /\ buf' = newbuf
       /\ src' = p.src
       /\ dgram' = p
       /\ nsent' = 0
       /\ hitAtEntry' = FALSE
       /\ cache0' = cache
       /\ failed' = FALSE
       /\ topFailed' = FALSE
       /\ asmFailed' = FALSE
       /\ ret' = NoRet
       /\ IF ~FromOctetsOk(req)
          THEN \* line 185 returns the error: main logs it and receives again
               /\ nreplies' = 0
               /\ pc' = "recv"
               /\ UNCHANGED <<request, stack, asked, reply>>
          ELSE IF HasSoleQuestion(req)
          THEN /\ request' = req
               /\ stack' = <<Frame(SoleQuestion(req), TRUE)>>
               /\ pc' = "recurse"
               /\ asked' = asked \cup {Canon(SoleQuestion(req))}
               /\ nreplies' = 0
               /\ reply' = NoReply
          ELSE /\ request' = req
               /\ reply' = BuildReply(p.src, req, "FormErr", NoMsg)
               /\ nreplies' = 1
               /\ pc' = "recv"
               /\ UNCHANGED <<stack, asked>>
  /\ UNCHANGED <<cache, query, returned>>

ClientRecv == ClientRecvOf(Packets) /\ UNCHANGED net

(***************************************************************************)
(* Upstream replies.                                                       *)
(***************************************************************************)
RAnswer == Msg("NoError", <<RecA(Wt, 7)>>, <<>>, <<>>)
RNxDomain == Msg("NXDomain", <<>>, <<>>, <<>>)
RServFail == Msg("ServFail", <<>>, <<>>, <<>>)
\* a referral whose second NS name has the first glue record
RGlue == Msg("NoError", <<>>, <<RecNs(Zt, NsO), RecNs(Zt, NsT)>>,
             <<RecA(NsT, 2), RecA(NsO, 3)>>)
\* a referral from the root zone without glue
RNoGlue == Msg("NoError", <<>>, <<RecNs(Root, NsO)>>, <<>>)
\* a reply whose sections do not parse
RBad == [Msg("NoError", <<>>, <<>>, <<>>) EXCEPT !.wf = FALSE]

\* an answer among records that do not parse and records of class CH
RMixed == Msg("NoError",
              <<RR(Wt, "A", "IN", [addr |-> 0], FALSE), RecA(Wt, 7),
                RR(Wt, "A", "CH", [addr |-> 8], TRUE)>>,
              <<RecNs(Zt, NsT), RR(Zt, "NS", "IN", [name |-> Root], FALSE)>>,
              <<RR(NsT, "A", "CH", [addr |-> 8], TRUE), RecA(NsT, 2)>>)

Replies == {RAnswer, RNxDomain, RServFail, RGlue, RNoGlue, RBad, RMixed}

SubCheckCacheTrue == TRUE

\* the check_cache argument of the sub-resolution, line 122
SubCheckCache == FALSE

(***************************************************************************)
(* recurse, lines 167-180: the cache check, then the first lookup at the   *)
(* root server.                                                            *)
(***************************************************************************)
Recurse ==
  /\ pc = "recurse"
  /\ LET f == Top
         key == f.question
         found == IF f.check_cache THEN CacheGet(cache, key) ELSE NoMsg
     IN /\ hitAtEntry' = IF Depth = 1
                         THEN f.check_cache /\ \E e \in cache : Canon(e.key) = Canon(key)
                         ELSE hitAtEntry
        /\ IF found # NoMsg
           THEN /\ ret' = [ok |-> TRUE, msg |-> found]
                /\ stack' = Pop
                /\ pc' = "return"
           ELSE /\ stack' = SetTop([f EXCEPT !.key = IF f.check_cache THEN key ELSE NoKey,
                                             !.name_server = Sock(ROOT_NAMESERVER)])
                /\ pc' = "lookup"
                /\ UNCHANGED ret
  /\ UNCHANGED <<buf, src, request, cache, query, reply, dgram, nreplies, nsent, asked,
                 returned, cache0, failed, topFailed, asmFailed>>
  /\ UNCHANGED net

(***************************************************************************)
(* lookup, lines 48-52: build the query and send it.                       *)
(***************************************************************************)
LookupSendOf(sat) ==
  /\ pc = "lookup"
  /\ query' = [question |-> Top.question, server |-> Top.name_server]
  /\ stack' = SetTop([Top EXCEPT !.hops = Min(Top.hops + 1, sat)])
  /\ nsent' = Min(nsent + 1, sat)
  /\ pc' = "await"
  /\ UNCHANGED <<buf, src, request, ret, cache, reply, dgram, nreplies, hitAtEntry, asked,
                 returned, cache0, failed, topFailed, asmFailed>>

LookupSend == LookupSendOf(HopSat) /\ UNCHANGED net

(***************************************************************************)
(* lookup, lines 53-56: a datagram arrives on the outbound socket.         *)
(***************************************************************************)
UpstreamReplyOf(R) ==
  /\ pc = "await"
  /\ \E r \in R : stack' = SetTop([Top EXCEPT !.response = r])
  /\ query' = NoQuery
  /\ pc' = "classify"
  /\ UNCHANGED <<buf, src, request, ret, cache, reply, history>>

\* the replies that keep the chain of sub-resolutions within MaxDepth
RepliesWithin(R) ==
  {r \in R : Depth < MaxDepth \/ Classify(r, Top.question).kind # "sub"}

UpstreamReply == UpstreamReplyOf(RepliesWithin(Replies)) /\ UNCHANGED net

(***************************************************************************)
(* lookup fails (send_to or recv_from returns an error): run_lookup and    *)
(* recurse return the error, lines 145 and 154.                            *)
(***************************************************************************)
LookupFail ==
  /\ pc = "await"
  /\ query' = NoQuery
  /\ ret' = NoRet
  /\ stack' = Pop
  /\ failed' = TRUE
  /\ topFailed' = (topFailed \/ Depth = 1)
  /\ pc' = "return"
  /\ UNCHANGED <<buf, src, request, cache, reply, dgram, nreplies, nsent, hitAtEntry, asked,
                 returned, cache0, asmFailed>>
  /\ UNCHANGED net

(***************************************************************************)
(* get_next_server, lines 64-122.                                          *)
(***************************************************************************)
GetNextServer ==
  /\ pc = "classify"
  /\ LET f == Top
         c == Classify(f.response, f.question)
     IN \/ /\ c.kind = "err"
           /\ ret' = NoRet
           /\ stack' = Pop
           /\ failed' = TRUE
           /\ topFailed' = (topFailed \/ Depth = 1)
           /\ pc' = "return"
        \/ /\ c.kind = "ret"
           /\ stack' = SetTop([f EXCEPT !.done = c.done, !.name_server = c.name_server])
           /\ pc' = "loop"
           /\ UNCHANGED <<ret, failed, topFailed>>
        \/ /\ c.kind = "sub"
           /\ stack' = Append(stack,
                              Frame(NewIn(UnresolvedNs(f.response, f.question), "A"),
                                    SubCheckCache))
           /\ pc' = "recurse"
           /\ UNCHANGED <<ret, failed, topFailed>>
  /\ UNCHANGED <<buf, src, request, cache, query, reply, dgram, nreplies, nsent, hitAtEntry,
                 asked, returned, cache0, asmFailed>>
  /\ UNCHANGED net

(***************************************************************************)
(* get_next_server, lines 123-134: the sub-resolution has returned.        *)
(***************************************************************************)
SubResolved ==
  /\ pc = "return"
  /\ Depth >= 1
  /\ LET items == IF ret.ok THEN AItems(ret.msg) ELSE <<>>
     IN \E c \in IF items = <<>> THEN {Terminal}
                  ELSE {ChosenResult(items[i]) : i \in 1..Len(items)} :
          stack' = SetTop([Top EXCEPT !.done = c.done, !.name_server = c.name_server])
  /\ pc' = "loop"
  /\ UNCHANGED <<buf, src, request, ret, cache, query, reply, history>>
  /\ UNCHANGED net

(***************************************************************************)
(* run_lookup, lines 148-164: follow the next server, or store the reply   *)
(* under the key and return it.                                            *)
(***************************************************************************)
RunLookupLoop ==
  /\ pc = "loop"
  /\ LET f == Top
     IN \/ /\ ~f.done
           /\ f.name_server # NoAddr
           /\ pc' = "lookup"
           /\ UNCHANGED <<stack, ret, cache>>
        \/ /\ f.done \/ f.name_server = NoAddr
           /\ cache' = IF f.key # NoKey THEN CacheInsert(cache, f.key, f.response)
                       ELSE cache
           /\ ret' = [ok |-> TRUE, msg |-> f.response]
           /\ stack' = Pop
           /\ pc' = "return"
  /\ UNCHANGED <<buf, src, request, query, reply, history>>
  /\ UNCHANGED net

(***************************************************************************)
(* handle_query, lines 189-233: recurse has returned to the handler, which *)
(* builds the reply and sends it to src.                                   *)
(***************************************************************************)
Reply ==
  /\ pc = "return"
  /\ Depth = 0
  /\ LET q == SoleQuestion(request)
     IN \/ /\ ret.ok
           /\ reply' = BuildReply(src, request, ResultRcode(ret.msg), ret.msg)
           /\ nreplies' = nreplies + 1
           /\ returned' = IF \E e \in returned : e.key = Canon(q) THEN returned
                          ELSE returned \cup {[key |-> Canon(q), msg |-> ret.msg]}
           /\ UNCHANGED asmFailed
        \/ /\ ret.ok
           /\ asmFailed' = TRUE
           /\ returned' = IF \E e \in returned : e.key = Canon(q) THEN returned
                          ELSE returned \cup {[key |-> Canon(q), msg |-> ret.msg]}
           /\ UNCHANGED <<reply, nreplies>>
        \/ /\ ~ret.ok
           /\ reply' = BuildReply(src, request, ServFailRcode, NoMsg)
           /\ nreplies' = nreplies + 1
           /\ UNCHANGED <<returned, asmFailed>>
  /\ pc' = "recv"
  /\ UNCHANGED <<buf, src, request, stack, ret, cache, query, dgram, nsent, hitAtEntry, asked,
                 cache0, failed, topFailed>>
  /\ UNCHANGED net

Next ==
  \/ ClientRecv
  \/ Recurse
  \/ LookupSend
  \/ UpstreamReply
  \/ LookupFail
  \/ GetNextServer
  \/ SubResolved
  \/ RunLookupLoop
  \/ Reply

Spec == Init /\ [][Next]_vars

(***************************************************************************)
(* The resolver among name servers that never let a walk end: a server     *)
(* that answers the question for w.t with a referral to itself (with       *)
(* glue), and a chain of name-server names n.o, n.n.o, ... each delegated  *)
(* without glue to the next.  Every upstream query receives a reply.       *)
(***************************************************************************)
RECURSIVE Chain(_)
\* the k-th name of the chain: k labels n under o
Chain(k) == IF k = 0 THEN <<"o">> ELSE <<"n">> \o Chain(k - 1)

\* a referral with glue that leads back to the server that sent it
RSelf == Msg("NoError", <<>>, <<RecNs(Zt, NsT)>>, <<RecA(NsT, ROOT_NAMESERVER)>>)

\* a referral without glue to the next name of the chain
RChain(k) == Msg("NoError", <<>>, <<RecNs(Root, Chain(k + 1))>>, <<>>)

CycleReplies ==
  LET n == query.question.qname
  IN IF NameEq(n, Wt) THEN {RSelf}
     ELSE IF query.server = Sock(ROOT_NAMESERVER) /\ Len(n) - 1 <= DEPTH_LIMIT + 1
     THEN {RChain(Len(n) - 1)}
     ELSE {RAnswer}

CyclePackets ==
  { Packet("c1", <<Hdr(1, 1), Qw>>),
    Packet("c2", <<Hdr(2, 1), NewIn(Chain(1), "A")>>) }

ClientRecvCycle == ClientRecvOf(CyclePackets) /\ UNCHANGED net
LookupSendCycle == LookupSendOf(HOP_LIMIT + 1) /\ UNCHANGED net
UpstreamReplyCycle == UpstreamReplyOf(CycleReplies) /\ UNCHANGED net

NextCycle ==
  \/ ClientRecvCycle
  \/ Recurse
  \/ LookupSendCycle
  \/ UpstreamReplyCycle
  \/ GetNextServer
  \/ SubResolved
  \/ RunLookupLoop
  \/ Reply

\* the thread runs whenever it can, and every upstream query is replied to
SpecCycle ==
  /\ Init
  /\ [][NextCycle]_vars
  /\ WF_vars(Recurse)
  /\ WF_vars(LookupSendCycle)
  /\ WF_vars(UpstreamReplyCycle)
  /\ WF_vars(GetNextServer)
  /\ WF_vars(SubResolved)
  /\ WF_vars(RunLookupLoop)
  /\ WF_vars(Reply)

(***************************************************************************)
(* The resolver on a network that may deliver a reply datagram twice.  The *)
(* one outbound socket (line 36) queues whatever arrives; lookup takes the *)
(* oldest queued datagram (line 54), whoever sent it and whatever it       *)
(* answers.  Sending and receiving themselves do not fail here.            *)
(***************************************************************************)
\* a datagram on the outbound socket: the message, the question it answers
\* and the server that sent it
Datagram(m, q) == [msg |-> m, question |-> q.question, server |-> q.server]

DupPackets ==
  { Packet("c1", <<Hdr(1, 1), Qw>>),
    Packet("c1", <<Hdr(3, 1), Qns>>) }

DupReplies == {RAnswer, RNxDomain, RNoGlue}

\* how many times the network delivers a datagram
Copies == {1, 2}

ClientRecvDup == ClientRecvOf(DupPackets) /\ UNCHANGED net

\* lines 48-52: the query leaves for name_server
LookupSendDup ==
  /\ LookupSendOf(HopSat)
  /\ outstanding' = query'
  /\ UNCHANGED <<inbox, consumed>>

\* the queried server replies, and the network delivers the reply to the
\* outbound socket once or twice
ServerReplyDup ==
  /\ outstanding # NoQuery
  /\ \E r \in DupReplies, n \in Copies :
       /\ Len(inbox) + n <= MaxInbox
       /\ inbox' = inbox \o [i \in 1..n |-> Datagram(r, outstanding)]
  /\ outstanding' = NoQuery
  /\ UNCHANGED <<pc, buf, src, request, stack, ret, cache, query, reply, history, consumed>>

\* lines 53-56: recv_from returns the oldest queued datagram
LookupRecvDup ==
  /\ inbox # <<>>
  /\ UpstreamReplyOf(RepliesWithin({Head(inbox).msg}))
  /\ consumed' = [query |-> query, question |-> Head(inbox).question,
                  server |-> Head(inbox).server]
  /\ inbox' = Tail(inbox)
  /\ UNCHANGED outstanding

NextDup ==
  \/ ClientRecvDup
  \/ Recurse
  \/ LookupSendDup
  \/ ServerReplyDup
  \/ LookupRecvDup
  \/ GetNextServer
  \/ SubResolved
  \/ RunLookupLoop
  \/ Reply

SpecDup == Init /\ [][NextDup]_vars

(***************************************************************************)
(* The claims.                                                             *)
(***************************************************************************)
TopLevelReturned == pc = "return" /\ Depth = 0
CachedFor(q) == {e \in cache : Canon(e.key) = Canon(q)}

\* C1: when the top-level recurse (check_cache = true) finds the canonical
\* form of its question in the cache, it returns the cached message and no
\* upstream query is sent while that request is handled.
C1_CacheHitSendsNothing ==
  hitAtEntry =>
    /\ nsent = 0
    /\ pc \in {"return", "recv"}
    /\ Depth = 0
    /\ ret.ok
    /\ \E e \in CachedFor(SoleQuestion(request)) : ret.msg = e.msg

\* C1 witness: a request whose name differs in case from the stored key was
\* answered from the cache.
C1_Witness ==
  /\ hitAtEntry
  /\ pc = "recv"
  /\ nreplies = 1
  /\ SoleQuestion(request) = QwUpper
  /\ \E e \in cache : e.key = Qw

\* C2: once a top-level recurse has returned M for a question, every later
\* top-level recurse for a canonically equal question returns M.
C2_LaterResolutionReturnsSame ==
  (TopLevelReturned /\ ret.ok) =>
    \A e \in returned : e.key = Canon(SoleQuestion(request)) => ret.msg = e.msg

\* C2 witness: the question W.T is resolved after w.t was, with a request
\* for another name handled in between.
C2_Witness ==
  /\ TopLevelReturned
  /\ ret.ok
  /\ SoleQuestion(request) = QwUpper
  /\ \E e \in cache : e.key = Qw
  /\ \E e \in returned : e.key = Canon(Qw) /\ e.msg = ret.msg
  /\ \E e \in returned : e.key = Canon(Qns)

\* C3: a sub-resolution never reads the cache and never inserts into it:
\* every key of the cache is the question of a client request, a nested
\* recurse call carries no key, and it returns only after it has sent an
\* upstream query of its own.
C3_SubResolutionBypassesCache ==
  /\ [](\A e \in cache : Canon(e.key) \in asked)
  /\ [](\A i \in 2..Depth : stack[i].key = NoKey)
  /\ [][(Depth >= 2 /\ Len(stack') < Depth) => Top.hops >= 1]_vars

\* C3 witness: a sub-resolution waits for the reply to its query while the
\* cache holds an entry for its question.
C3_Witness ==
  /\ Depth >= 2
  /\ pc = "await"
  /\ CachedFor(Top.question) # {}

\* C4: every message in the cache is an authoritative answer (NoError with a
\* non-empty answer section) or has rcode NXDomain.
C4_OnlyAnswersCached ==
  \A e \in cache :
    \/ e.msg.rcode = "NoError" /\ Len(e.msg.answer) > 0
    \/ e.msg.rcode = "NXDomain"

\* C5: if an upstream query failed while a request is handled, the cache is
\* what it was when the request was received.
C5_FailuresNotCached == failed => cache = cache0

\* C6: get_next_server never returns (false, None).
C6_NeverFalseNone ==
  pc = "loop" => ~(~Top.done /\ Top.name_server = NoAddr)

\* C6 witness: get_next_server returned (false, Some(addr)) with the address
\* of a sub-resolution's answer.
C6_Witness ==
  /\ pc = "loop"
  /\ ~Top.done
  /\ Top.name_server = Sock(7)
  /\ Top.response = RNoGlue

\* C7: every call of recurse for a client's question returns, with a
\* message or an error, when every upstream query receives a reply.
C7_RecurseReturns == (pc = "recurse" /\ Depth = 1) ~> TopLevelReturned

\* C8: within one resolution no call of recurse sends more than HOP_LIMIT
\* upstream queries and no more than DEPTH_LIMIT sub-resolutions are nested.
C8_HopsAndDepthBounded ==
  /\ \A i \in 1..Depth : stack[i].hops <= HOP_LIMIT
  /\ Depth - 1 <= DEPTH_LIMIT

C11_NotOneQuestionFormErr ==
  (pc = "recv" /\ Len(dgram.data) >= 1 /\ dgram.data[1].qd # 1) =>
    /\ nreplies = 1
    /\ reply.rcode = "FormErr"
    /\ reply.dst = dgram.src
    /\ nsent = 0
    /\ cache = cache0

\* C11 witness: a request with two questions, the first of them in the
\* cache, was answered FormErr.
C11_Witness ==
  /\ pc = "recv"
  /\ dgram = Packet("c2", <<Hdr(2, 2), Qw, Qns>>)
  /\ reply.rcode = "FormErr"
  /\ Len(reply.questions) = 2
  /\ CachedFor(Qw) # {}

\* a datagram too short to hold a DNS header
Undecodable(data) == Len(data) < 1

\* C12: a datagram that does not decode as a DNS message is answered FormErr
\* at its source address, and the listener is back at receiving.
C12_UndecodableFormErr ==
  (pc = "recv" /\ dgram # NoPacket /\ Undecodable(dgram.data)) =>
    /\ nreplies = 1
    /\ reply.rcode = "FormErr"
    /\ reply.dst = dgram.src

\* C13: once an upstream query for the client's own question has failed,
\* recurse has returned the error (no further query, no earlier reply
\* returned), and the reply the handler sends is ServFail with empty answer,
\* authority and additional sections.
C13_TopLevelFailureServFail ==
  topFailed =>
    /\ pc \in {"return", "recv"}
    /\ Depth = 0
    /\ ~ret.ok
    /\ query = NoQuery
    /\ pc = "recv" =>
         /\ nreplies = 1
         /\ reply.dst = dgram.src
         /\ reply.rcode = "ServFail"
         /\ reply.answer = <<>>
         /\ reply.authority = <<>>
         /\ reply.additional = <<>>

\* C13 witness: the second query of the top-level walk, sent after a
\* referral was followed, failed, and the client got ServFail.
C13_Witness ==
  /\ topFailed
  /\ pc = "recv"
  /\ nsent = 2
  /\ reply.rcode = "ServFail"

\* C14: the reply for a resolved request carries the rcode of the message
\* recurse returned, which is the cached message on a cache hit and else the
\* upstream reply the top-level walk ended at.  An NXDomain reply ends the
\* walk where it is received, the client reply is NXDomain, and the message
\* is in the cache under the client's question.
C14_RcodeMirrored ==
  /\ []((pc = "recv" /\ ret.ok /\ nreplies = 1) =>
         /\ reply.rcode = ret.msg.rcode
         /\ hitAtEntry => \E e \in cache0 :
                             /\ Canon(e.key) = Canon(SoleQuestion(request))
                             /\ e.msg = ret.msg
         /\ ret.msg.rcode = "NXDomain" =>
              /\ reply.rcode = "NXDomain"
              /\ \E e \in CachedFor(SoleQuestion(request)) : e.msg = ret.msg)
  /\ [][(pc = "classify" /\ Top.response.wf /\ Top.response.rcode = "NXDomain") =>
          (pc' = "loop" /\ Len(stack') = Depth /\ stack'[Depth].done)]_vars
  /\ [][(pc = "loop" /\ Top.done) =>
          (pc' = "return" /\ ret'.ok /\ ret'.msg = Top.response)]_vars
  /\ [][(pc = "return" /\ Depth = 0 /\ ~hitAtEntry /\ ret.ok) =>
          (ret.msg.wf /\ ret' = ret)]_vars

\* C14 witness: the server a referral led to answered NXDomain, and the
\* client got an NXDomain reply that is now in the cache.
C14_Witness ==
  /\ pc = "recv"
  /\ nreplies = 1
  /\ ~hitAtEntry
  /\ nsent = 2
  /\ reply.rcode = "NXDomain"
  /\ \E e \in CachedFor(SoleQuestion(request)) : e.msg = RNxDomain

RECURSIVE ParseableIn(_)
\* the records of a section that parse and are of class IN, in their order
ParseableIn(section) ==
  IF section = <<>> THEN <<>>
  ELSE (IF Head(section).ok /\ Head(section).rclass = "IN" THEN <<Head(section)>> ELSE <<>>)
       \o ParseableIn(Tail(section))

\* C15: the answer, authority and additional sections of the reply for a
\* resolved request are the parseable IN-class records of the same section
\* of the result, in the result's order.
C15_SectionsFiltered ==
  (pc = "recv" /\ ret.ok /\ nreplies = 1) =>
    /\ reply.answer = ParseableIn(ret.msg.answer)
    /\ reply.authority = ParseableIn(ret.msg.authority)
    /\ reply.additional = ParseableIn(ret.msg.additional)

\* C15 witness: a result with unparseable and CH-class records in every
\* section was sent on without them.
C15_Witness ==
  /\ pc = "recv"
  /\ nreplies = 1
  /\ ret.ok
  /\ ret.msg = RMixed
  /\ reply.answer = <<RecA(Wt, 7)>>
  /\ reply.authority = <<RecNs(Zt, NsT)>>
  /\ reply.additional = <<RecA(NsT, 2)>>

\* a reply get_next_server does not end the walk at by its answer or rcode
NonTerminal(response) ==
  /\ response.wf
  /\ ~(Len(response.answer) > 0 /\ response.rcode = "NoError")
  /\ response.rcode # "NXDomain"

\* the A records of the additional section owned by candidate NS names, in
\* additional-section order
CandidateGlue(response, question) ==
  LET hosts == RelevantHosts(response, question)
  IN SelectSeq(response.additional,
               LAMBDA rec : /\ rec.rtype = "A" /\ rec.ok
                            /\ \E i \in 1..Len(hosts) : NameEq(rec.owner, hosts[i]))

\* the glue records of the first candidate NS name, in authority-section
\* order, that has any
GlueOfFirstHost(response, question) ==
  LET hosts == RelevantHosts(response, question)
      glue == CandidateGlue(response, question)
      has(i) == \E k \in 1..Len(glue) : NameEq(glue[k].owner, hosts[i])
      first == CHOOSE i \in 1..Len(hosts) : has(i) /\ \A j \in 1..(i - 1) : ~has(j)
  IN SelectSeq(glue, LAMBDA rec : NameEq(rec.owner, hosts[first]))

\* no active call of recurse was started for a reply that had glue
NoSubResolutionWithGlue ==
  \A i \in 1..(Depth - 1) : CandidateGlue(stack[i].response, stack[i].question) = <<>>

\* C16 as stated: for a non-terminal reply with glue for a candidate NS
\* name, get_next_server returns (false, Some((addr, 53))) with addr the
\* first glue record in additional-section order, whatever the order of the
\* NS records, and no sub-resolution is started.
C16_FirstGlueInAdditionalOrder ==
  /\ (/\ pc = "loop"
      /\ NonTerminal(Top.response)
      /\ CandidateGlue(Top.response, Top.question) # <<>>) =>
       /\ ~Top.done
       /\ Top.name_server = Sock(CandidateGlue(Top.response, Top.question)[1].rdata.addr)
  /\ NoSubResolutionWithGlue

\* C16, amended: the address is that of the first glue record, in
\* additional-section order, of the first candidate NS name in
\* authority-section order that has glue; the port is 53 and no
\* sub-resolution is started.
C16_FirstGlueOfFirstHost ==
  /\ (/\ pc = "loop"
      /\ NonTerminal(Top.response)
      /\ CandidateGlue(Top.response, Top.question) # <<>>) =>
       /\ ~Top.done
       /\ Top.name_server.ip = GlueOfFirstHost(Top.response, Top.question)[1].rdata.addr
       /\ Top.name_server.port = 53
  /\ \A i \in 1..(Depth - 1) : CandidateGlue(stack[i].response, stack[i].question) = <<>>

\* C16 witness: a referral whose first NS name has the second glue record
\* was classified, and the walk goes on at that second address.
C16_Witness ==
  /\ pc = "loop"
  /\ Top.response = RGlue
  /\ CandidateGlue(Top.response, Top.question)[1].rdata.addr = 2
  /\ Top.name_server = Sock(3)
  /\ Depth = 1

\* the addresses of the A records of a message's answer section
AnswerAddrs(m) ==
  {m.answer[i].rdata.addr : i \in {k \in 1..Len(m.answer) :
                                     m.answer[k].rtype = "A" /\ m.answer[k].ok}}

\* a referral with candidate NS names and glue for none of them
GluelessReferral(response, question) ==
  /\ NonTerminal(response)
  /\ RelevantHosts(response, question) # <<>>
  /\ CandidateGlue(response, question) = <<>>

\* C17: for a referral with candidate NS names and no glue, the
\* sub-resolution asks for the A record of the first candidate NS name; if
\* it returned at least one A record the walk goes on at port 53 of one of
\* their addresses, and if it failed or returned none the result is
\* (true, None).
C17_OneSubResolution ==
  /\ \A i \in 2..Depth :
       /\ GluelessReferral(stack[i - 1].response, stack[i - 1].question)
       /\ stack[i].question =
            NewIn(RelevantHosts(stack[i - 1].response, stack[i - 1].question)[1], "A")
  /\ (pc = "loop" /\ GluelessReferral(Top.response, Top.question)) =>
       IF ret.ok /\ AnswerAddrs(ret.msg) # {}
       THEN /\ ~Top.done
            /\ Top.name_server.port = 53
            /\ Top.name_server.ip \in AnswerAddrs(ret.msg)
       ELSE Top.done /\ Top.name_server = NoAddr

\* C18: the cache is write-once and never shrinks: a step that changes it
\* keeps every entry as it is and adds one entry, whose key was absent.
C18_CacheWriteOnce ==
  [][cache' # cache =>
       /\ cache \subseteq cache'
       /\ \E e \in cache' \ cache :
            /\ cache' = cache \cup {e}
            /\ CachedFor(e.key) = {}
            /\ CacheHits(cache, e.key) = {}]_vars

\* C18 witness: a request was resolved and inserted beside an entry that a
\* request before it had left in the cache.
C18_Witness ==
  /\ pc = "return"
  /\ Depth = 0
  /\ cache0 # {}
  /\ cache0 \subseteq cache
  /\ Cardinality(cache) = Cardinality(cache0) + 1

\* what handle_query reads of the request it parsed: the id and the question
\* count of the header, whether sole_question() is Ok, and the questions
\* start_answer copies
RequestView(req) ==
  [id |-> req[1].id, qd |-> req[1].qd, sole |-> HasSoleQuestion(req),
   questions |-> Questions(req)]

\* the request handle_query parses from a datagram when the datagram
\* received before it, the first of the run, was p
RequestAfter(p, data) ==
  ToVec(RecvInto(RecvInto(ZeroBuf, p.data), data), Len(data))

\* C19: what the handler makes of a datagram does not depend on the
\* datagrams received before it: when earlier datagrams have left bytes in
\* the buffer, the request it handles is still the one it would handle had
\* any other datagram come first.
C19_IndependentOfEarlierDatagrams ==
  (dgram # NoPacket /\ buf # RecvInto(ZeroBuf, dgram.data)) =>
    \A p \in Packets : RequestView(request) = RequestView(RequestAfter(p, dgram.data))

\* C20: the datagram lookup returns was sent in reply to the query lookup
\* sent: it answers the same question and comes from the queried server.
C20_ReplyIsToItsQuery ==
  consumed.query # NoQuery =>
    /\ consumed.question = consumed.query.question
    /\ consumed.server = consumed.query.server

====
